---- MODULE Spec2Model ----
(***************************************************************************)
(* A model of the PHC string codec of b-life-org/phc-format (src/mod.ts):  *)
(* serialize (record -> string) and deserialize (string -> record), with   *)
(* the regular expressions, the parameter mini-codec and the base64 calls  *)
(* they are built from.                                                    *)
(*                                                                         *)
(* A JavaScript string is a sequence of one-character strings. A           *)
(* JavaScript value is a record whose field t is its type tag.             *)
(***************************************************************************)
EXTENDS Integers, Sequences, FiniteSets, TLC

VARIABLES
    pc,      \* the call that runs next: "serialize", "deserialize" or "done"
    first,   \* the call the run started with
    opts,    \* the argument of serialize
    phcStr,  \* the argument of deserialize
    sres,    \* what serialize returned or threw
    dres     \* what deserialize returned or threw

vars == <<pc, first, opts, phcStr, sres, dres>>

----------------------------------------------------------------------------
(* Characters *)

LowerChars ==
    {"a","b","c","d","e","f","g","h","i","j","k","l","m",
     "n","o","p","q","r","s","t","u","v","w","x","y","z"}

UpperChars ==
    {"A","B","C","D","E","F","G","H","I","J","K","L","M",
     "N","O","P","Q","R","S","T","U","V","W","X","Y","Z"}

DigitChars == {"0","1","2","3","4","5","6","7","8","9"}

DigitSeq == <<"0","1","2","3","4","5","6","7","8","9">>

DigitValue(c) == (CHOOSE i \in 1..10 : DigitSeq[i] = c) - 1

----------------------------------------------------------------------------
(* Strings and arrays *)

AllIn(s, S) == \A i \in 1..Len(s) : s[i] \in S

Rep(c, n) == [i \in 1..n |-> c]

RECURSIVE Split(_, _)
\* String.prototype.split with a one-character separator.
Split(s, sep) ==
    IF \A i \in 1..Len(s) : s[i] # sep
    THEN <<s>>
    ELSE LET i == CHOOSE k \in 1..Len(s) :
                      s[k] = sep /\ \A j \in 1..(k - 1) : s[j] # sep
         IN  <<SubSeq(s, 1, i - 1)>> \o Split(SubSeq(s, i + 1, Len(s)), sep)

RECURSIVE Join(_, _)
\* Array.prototype.join.
Join(parts, sep) ==
    IF Len(parts) = 0 THEN <<>>
    ELSE IF Len(parts) = 1 THEN parts[1]
    ELSE parts[1] \o sep \o Join(Tail(parts), sep)

\* Array.prototype.slice(1)
Slice1(a) == IF Len(a) = 0 THEN <<>> ELSE Tail(a)

\* Array.prototype.pop: the array that is left
Popped(a) == IF Len(a) = 0 THEN <<>> ELSE SubSeq(a, 1, Len(a) - 1)

----------------------------------------------------------------------------
(* JavaScript values *)

JsUndefined == [t |-> "undefined"]
JsNull == [t |-> "null"]
JsStr(s) == [t |-> "string", s |-> s]
JsNum(neg, int, frac) == [t |-> "number", neg |-> neg, int |-> int, frac |-> frac]
JsInt(n) == JsNum(n < 0, IF n < 0 THEN -n ELSE n, <<>>)
JsBytes(b) == [t |-> "bytes", b |-> b]
\* an object: its own enumerable properties in Object.entries order
JsObj(entries) == [t |-> "object", o |-> entries]

\* a[i] of an array of strings: undefined when i is out of range
At(a, i) == IF i \in 1..Len(a) THEN JsStr(a[i]) ELSE JsUndefined

\* the truthiness of a value (the `x && ...` test)
Truthy(v) ==
    CASE v.t = "undefined" -> FALSE
      [] v.t = "null" -> FALSE
      [] v.t = "string" -> Len(v.s) > 0
      [] v.t = "number" -> ~(v.int = 0 /\ v.frac = <<>>)
      [] OTHER -> TRUE

RECURSIVE NatToString(_)
NatToString(n) ==
    IF n < 10 THEN <<DigitSeq[n + 1]>>
    ELSE NatToString(n \div 10) \o <<DigitSeq[(n % 10) + 1]>>

\* Number::toString of a finite number below 1e21 (no exponent form);
\* -0 prints as "0".
NumberToString(v) ==
    IF v.int = 0 /\ v.frac = <<>> THEN <<"0">>
    ELSE (IF v.neg THEN <<"-">> ELSE <<>>)
         \o NatToString(v.int)
         \o (IF v.frac = <<>> THEN <<>>
             ELSE <<".">> \o [i \in 1..Len(v.frac) |-> DigitSeq[v.frac[i] + 1]])

\* ToString(v), as the template literals and RegExp.prototype.test apply it
JsToString(v) ==
    CASE v.t = "string" -> v.s
      [] v.t = "number" -> NumberToString(v)
      [] v.t = "undefined" -> <<"u","n","d","e","f","i","n","e","d">>
      [] v.t = "null" -> <<"n","u","l","l">>
      [] v.t = "bytes" -> Join([i \in 1..Len(v.b) |-> NatToString(v.b[i])], <<",">>)
      [] OTHER -> <<"[","o","b","j","e","c","t"," ","O","b","j","e","c","t","]">>

RECURSIVE DigitsToNat(_)
DigitsToNat(s) ==
    IF Len(s) = 0 THEN 0
    ELSE 10 * DigitsToNat(SubSeq(s, 1, Len(s) - 1)) + DigitValue(s[Len(s)])

RECURSIVE StripTrailingZeros(_)
StripTrailingZeros(d) ==
    IF Len(d) > 0 /\ d[Len(d)] = 0 THEN StripTrailingZeros(SubSeq(d, 1, Len(d) - 1))
    ELSE d

\* StringToNumber on a string without whitespace, exponent, radix prefix or
\* "Infinity": [sign] digits [. [digits]]  or  [sign] . digits; NaN otherwise.
NumberOf(s) ==
    LET signed == Len(s) > 0 /\ s[1] \in {"+", "-"}
        body == IF signed THEN Tail(s) ELSE s
        halves == Split(body, ".")
        ip == halves[1]
        fp == IF Len(halves) = 2 THEN halves[2] ELSE <<>>
        wellFormed == /\ Len(halves) <= 2
                      /\ AllIn(ip, DigitChars) /\ AllIn(fp, DigitChars)
                      /\ Len(ip) + Len(fp) > 0
    IN  IF Len(s) = 0 THEN [nan |-> FALSE, num |-> JsInt(0)]
        ELSE IF ~wellFormed THEN [nan |-> TRUE, num |-> JsInt(0)]
        ELSE [nan |-> FALSE,
              num |-> JsNum(signed /\ s[1] = "-", DigitsToNat(ip),
                            StripTrailingZeros([i \in 1..Len(fp) |-> DigitValue(fp[i])]))]

\* parseInt(s, 10) on a string of digits
ParseInt(s) == JsInt(DigitsToNat(s))

----------------------------------------------------------------------------
(* Objects *)

\* a property that the object does not have ("k" in obj is false)
Absent == [t |-> "absent"]

Has(v) == v.t # "absent"

\* obj.k: undefined when the property is absent
Get(v) == IF Has(v) THEN v ELSE JsUndefined

\* an integer index key ("0", "7", "10"; not "07"): such keys are enumerated
\* first, in ascending numeric order. Keys of ten digits or more are outside
\* the model's inputs.
IsArrayIndex(k) ==
    /\ Len(k) \in 1..9
    /\ AllIn(k, DigitChars)
    /\ (Len(k) = 1 \/ k[1] # "0")

\* result[key] = value on an ordinary object, entries kept in Object.entries
\* order: index keys ascending, then the other keys in insertion order.
ObjSet(o, k, v) ==
    IF \E i \in 1..Len(o) : o[i][1] = k
    THEN [i \in 1..Len(o) |-> IF o[i][1] = k THEN <<k, v>> ELSE o[i]]
    ELSE IF IsArrayIndex(k)
    THEN LET before == {i \in 1..Len(o) :
                          /\ IsArrayIndex(o[i][1])
                          /\ DigitsToNat(o[i][1]) < DigitsToNat(k)}
             n == Cardinality(before)
         IN  SubSeq(o, 1, n) \o <<<<k, v>>>> \o SubSeq(o, n + 1, Len(o))
    ELSE Append(o, <<k, v>>)

----------------------------------------------------------------------------
(* Regular expressions, src/mod.ts lines 4-8; test(v) applies ToString(v) *)

IdMaxLen == 32
NameMaxLen == 32

IdChars == LowerChars \cup DigitChars \cup {"-"}

ValueChars == LowerChars \cup UpperChars \cup DigitChars \cup {"+", ".", "-"}

Base64FieldChars ==
    LowerChars \cup UpperChars \cup DigitChars \cup {"/", "+", ".", "-"}

\* the id pattern with the length bound lost: /^[a-z0-9-]+$/
ID_REGEX_Unbounded(v) ==
    LET s == JsToString(v) IN Len(s) >= 1 /\ AllIn(s, IdChars)

\* /^[a-z0-9-]{1,32}$/
ID_REGEX(v) ==
    LET s == JsToString(v) IN Len(s) \in 1..IdMaxLen /\ AllIn(s, IdChars)

\* /^[a-z0-9-]{1,32}$/
NAME_REGEX(v) ==
    LET s == JsToString(v) IN Len(s) \in 1..NameMaxLen /\ AllIn(s, IdChars)

\* /^[a-zA-Z0-9+.-]+$/
VALUE_REGEX(v) ==
    LET s == JsToString(v) IN Len(s) >= 1 /\ AllIn(s, ValueChars)

\* /^([a-zA-Z0-9/+.-]+|)$/
BASE64_REGEX(v) ==
    LET s == JsToString(v) IN AllIn(s, Base64FieldChars)

\* /^v=(\d+)$/
VERSION_REGEX(v) ==
    LET s == JsToString(v)
    IN  /\ Len(s) >= 3
        /\ s[1] = "v" /\ s[2] = "="
        /\ AllIn(SubSeq(s, 3, Len(s)), DigitChars)

\* the capture group of VERSION_REGEX
VersionDigits(s) == SubSeq(s, 3, Len(s))

----------------------------------------------------------------------------
(* Base64, @std/encoding *)

B64Chars ==
    <<"A","B","C","D","E","F","G","H","I","J","K","L","M",
      "N","O","P","Q","R","S","T","U","V","W","X","Y","Z",
      "a","b","c","d","e","f","g","h","i","j","k","l","m",
      "n","o","p","q","r","s","t","u","v","w","x","y","z",
      "0","1","2","3","4","5","6","7","8","9","+","/">>

B64Char(n) == B64Chars[n + 1]

B64CharSet == {B64Chars[i] : i \in 1..Len(B64Chars)}

B64Value(c) == (CHOOSE i \in 1..Len(B64Chars) : B64Chars[i] = c) - 1

RECURSIVE encodeBase64(_)
\* standard alphabet, padded with "="
encodeBase64(b) ==
    IF Len(b) = 0 THEN <<>>
    ELSE IF Len(b) = 1
    THEN <<B64Char(b[1] \div 4), B64Char((b[1] % 4) * 16), "=", "=">>
    ELSE IF Len(b) = 2
    THEN <<B64Char(b[1] \div 4),
           B64Char((b[1] % 4) * 16 + b[2] \div 16),
           B64Char((b[2] % 16) * 4), "=">>
    ELSE <<B64Char(b[1] \div 4),
           B64Char((b[1] % 4) * 16 + b[2] \div 16),
           B64Char((b[2] % 16) * 4 + b[3] \div 64),
           B64Char(b[3] % 64)>>
         \o encodeBase64(SubSeq(b, 4, Len(b)))

\* encodeBase64(x).split("=")[0]
EncodeUnpadded(b) == Split(encodeBase64(b), "=")[1]

RECURSIVE DecodeQuads(_)
\* the bytes of a string of alphabet characters whose length is not 1 mod 4;
\* the bits of a last partial group that fill no byte are dropped
DecodeQuads(s) ==
    IF Len(s) = 0 THEN <<>>
    ELSE LET v(i) == B64Value(s[i])
             b1 == v(1) * 4 + v(2) \div 16
             b2 == (v(2) % 16) * 16 + v(3) \div 4
             b3 == (v(3) % 4) * 64 + v(4)
         IN  IF Len(s) = 2 THEN <<b1>>
             ELSE IF Len(s) = 3 THEN <<b1, b2>>
             ELSE <<b1, b2, b3>> \o DecodeQuads(SubSeq(s, 5, Len(s)))

RECURSIVE StripPad(_, _)
\* up to n trailing "=" removed
StripPad(s, n) ==
    IF n > 0 /\ Len(s) > 0 /\ s[Len(s)] = "="
    THEN StripPad(SubSeq(s, 1, Len(s) - 1), n - 1)
    ELSE s

\* what decodeBase64(undefined) does depends on the release of @std/encoding
\* the build resolves: the atob-based releases throw, the later ones return
\* an empty Uint8Array.
LibOutcomes == {"throws", "empty"}

\* decodeBase64(v): [ok, bytes]; ok = FALSE when it throws
decodeBase64(v, lib) ==
    IF v.t # "string"
    THEN [ok |-> lib = "empty", bytes |-> <<>>]
    ELSE LET s == StripPad(v.s, 2)
         IN  IF AllIn(s, B64CharSet) /\ Len(s) % 4 # 1
             THEN [ok |-> TRUE, bytes |-> DecodeQuads(s)]
             ELSE [ok |-> FALSE, bytes |-> <<>>]

----------------------------------------------------------------------------
(* The parameter mini-codec *)

\* a thrown TypeError, by the start of its message
SFail(m) == [ok |-> FALSE, str |-> <<>>, err |-> m]
SOk(str) == [ok |-> TRUE, str |-> str, err |-> ""]

\* validateParamKey does not throw
validateParamKey(key) == NAME_REGEX(JsStr(key))

\* validateParamValue does not throw
validateParamValue(value) ==
    IF value.t = "number" THEN TRUE ELSE VALUE_REGEX(value)

\* the first entry the map callback throws on, 0 when there is none
FirstBadEntry(o) ==
    LET bad == {i \in 1..Len(o) :
                  ~validateParamKey(o[i][1]) \/ ~validateParamValue(o[i][2])}
    IN  IF bad = {} THEN 0 ELSE CHOOSE i \in bad : \A j \in bad : i <= j

serializeParams(params) ==
    IF params.t # "object" THEN SFail("params must be an object")
    ELSE IF Len(params.o) = 0 THEN SFail("opts is empty")
    ELSE LET bad == FirstBadEntry(params.o)
         IN  IF bad # 0
             THEN IF ~validateParamKey(params.o[bad][1])
                  THEN SFail("params names must satisfy")
                  ELSE SFail("params values must satisfy")
             ELSE SOk(Join([i \in 1..Len(params.o) |->
                              params.o[i][1] \o <<"=">> \o JsToString(params.o[i][2])],
                           <<",">>))

PFail(m) == [ok |-> FALSE, o |-> <<>>, err |-> m]

\* the key check of deserializeParams, line 86
ParamKeyAccepted(key) == VALUE_REGEX(JsStr(key))

\* the forEach callback of deserializeParams on one entry, result so far acc
DeserializeEntry(acc, entry) ==
    LET kv == Split(entry, "=")
        key == kv[1]
        rest == Tail(kv)
        value == Join(rest, <<"=">>)
        num == NumberOf(value)
    IN  IF Len(key) = 0 \/ Len(rest) = 0
        THEN PFail("params must be in the format name=value")
        ELSE IF ~ParamKeyAccepted(key)
        THEN PFail("params names must satisfy")
        ELSE IF ~VALUE_REGEX(JsStr(value))
        THEN PFail("params values must satisfy")
        ELSE [ok |-> TRUE,
              o |-> ObjSet(acc.o, key, IF num.nan THEN JsStr(value) ELSE num.num),
              err |-> ""]

RECURSIVE DeserializeEntries(_, _)
DeserializeEntries(acc, entries) ==
    IF ~acc.ok \/ Len(entries) = 0 THEN acc
    ELSE DeserializeEntries(DeserializeEntry(acc, entries[1]), Tail(entries))

deserializeParams(str) ==
    DeserializeEntries([ok |-> TRUE, o |-> <<>>, err |-> ""], Split(str, ","))

----------------------------------------------------------------------------
(* serialize *)

\* a record: each property is a value, or Absent
Opts(id, version, params, salt, hash) ==
    [t |-> "object", id |-> id, version |-> version, params |-> params,
     salt |-> salt, hash |-> hash]

NoKeys(o) ==
    ~Has(o.id) /\ ~Has(o.version) /\ ~Has(o.params) /\ ~Has(o.salt) /\ ~Has(o.hash)

\* v < 0 on a number (-0 is not below 0)
IsNegative(v) == v.neg /\ ~(v.int = 0 /\ v.frac = <<>>)

\* the version test, lines 126-130
VersionAccepted(v) == v.t = "number" /\ ~IsNegative(v) /\ v.frac = <<>>

\* the guard of the salt block, line 141
SaltGuard(o) == Has(o.salt) /\ Truthy(o.salt)

\* the guard of the hash block, line 151
HashGuard(o) == Has(o.hash) /\ Truthy(o.hash)

\* the hash block moved out of the salt block
SerializeSaltHash_HashAlone(o, sofar) ==
    LET afterSalt ==
            IF ~SaltGuard(o) THEN SOk(sofar)
            ELSE IF o.salt.t # "bytes"
            THEN SFail("salt must be a ArrayBuffer or Uint8Array")
            ELSE SOk(sofar \o <<"$">> \o EncodeUnpadded(o.salt.b))
    IN  IF ~afterSalt.ok \/ ~HashGuard(o) THEN afterSalt
        ELSE IF o.hash.t # "bytes"
        THEN SFail("hash must be a ArrayBuffer or Uint8Array")
        ELSE SOk(afterSalt.str \o <<"$">> \o EncodeUnpadded(o.hash.b))

\* the salt and hash segments, lines 141-161, appended to the string so far
SerializeSaltHash(o, sofar) ==
    IF ~SaltGuard(o) THEN SOk(sofar)
    ELSE IF o.salt.t # "bytes" THEN SFail("salt must be a ArrayBuffer or Uint8Array")
    ELSE LET withSalt == sofar \o <<"$">> \o EncodeUnpadded(o.salt.b)
         IN  IF ~HashGuard(o) THEN SOk(withSalt)
             ELSE IF o.hash.t # "bytes"
             THEN SFail("hash must be a ArrayBuffer or Uint8Array")
             ELSE SOk(withSalt \o <<"$">> \o EncodeUnpadded(o.hash.b))

serialize(o) ==
    IF o.t # "object" THEN SFail("opts must be an object")
    ELSE IF NoKeys(o) THEN SFail("opts is empty")
    ELSE IF Get(o.id).t # "string" THEN SFail("id must be a string")
    ELSE IF ~ID_REGEX(o.id) THEN SFail("id must satisfy")
    ELSE IF Has(o.version) /\ ~VersionAccepted(o.version)
    THEN SFail("version must be a positive integer number")
    ELSE LET p1 == <<"$">> \o o.id.s
             p2 == IF Has(o.version)
                   THEN p1 \o <<"$", "v", "=">> \o JsToString(o.version)
                   ELSE p1
             ps == IF Has(o.params) THEN serializeParams(o.params) ELSE SOk(<<>>)
         IN  IF ~ps.ok THEN ps
             ELSE SerializeSaltHash(o, IF Has(o.params) THEN p2 \o <<"$">> \o ps.str
                                       ELSE p2)

----------------------------------------------------------------------------
(* deserialize *)

DFail(m) == [ok |-> FALSE, val |-> JsUndefined, err |-> m, n |-> 0, max |-> 0, left |-> <<>>]
DOk(v) == [ok |-> TRUE, val |-> v, err |-> "", n |-> 0, max |-> 0, left |-> <<>>]

\* the version test of line 192 left out
maxf_Always5(parts) == 5

\* maxf, lines 191-192
maxf(parts) == IF VERSION_REGEX(At(parts, 2)) THEN 5 ELSE 4

TooManyFields(parts) == Len(parts) > maxf(parts)

\* the version read with fields[0] instead of fields.shift()
TakeVersion_NoShift(fields) ==
    IF VERSION_REGEX(At(fields, 1))
    THEN [version |-> ParseInt(VersionDigits(fields[1])), fields |-> fields]
    ELSE [version |-> Absent, fields |-> fields]

\* lines 212-215: [version, fields left]
TakeVersion(fields) ==
    IF VERSION_REGEX(At(fields, 1))
    THEN [version |-> ParseInt(VersionDigits(fields[1])), fields |-> Tail(fields)]
    ELSE [version |-> Absent, fields |-> fields]

\* lines 218-228: [ok, salt, hash, fields left]; ok = FALSE when decodeBase64 throws
TakeSaltHash(fields, lib) ==
    LET n == Len(fields)
        none == [ok |-> TRUE, salt |-> Absent, hash |-> Absent, fields |-> fields]
        thrown == [ok |-> FALSE, salt |-> Absent, hash |-> Absent, fields |-> fields]
    IN  IF ~BASE64_REGEX(At(fields, n)) THEN none
        ELSE IF n > 1 /\ BASE64_REGEX(At(fields, n - 1))
        THEN LET h == decodeBase64(At(fields, n), lib)
                 s == decodeBase64(At(fields, n - 1), lib)
             IN  IF ~h.ok \/ ~s.ok THEN thrown
                 ELSE [ok |-> TRUE, salt |-> JsBytes(s.bytes), hash |-> JsBytes(h.bytes),
                       fields |-> Popped(Popped(fields))]
        ELSE LET s == decodeBase64(At(fields, n), lib)
             IN  IF ~s.ok THEN thrown
                 ELSE [ok |-> TRUE, salt |-> JsBytes(s.bytes), hash |-> Absent,
                       fields |-> Popped(fields)]

\* lines 203-238, after the field count checks
DeserializeFields(parts, lib) ==
    LET id == parts[1]
        tv == TakeVersion(Tail(parts))
        sh == TakeSaltHash(tv.fields, lib)
        hasParams == Len(sh.fields) > 0
        ps == IF hasParams THEN deserializeParams(sh.fields[Len(sh.fields)])
              ELSE [ok |-> TRUE, o |-> <<>>, err |-> ""]
        left == IF hasParams THEN Popped(sh.fields) ELSE sh.fields
    IN  IF ~ID_REGEX(JsStr(id)) THEN DFail("id must satisfy")
        ELSE IF ~sh.ok THEN DFail("decodeBase64")
        ELSE IF ~ps.ok THEN DFail(ps.err)
        ELSE IF Len(left) > 0
        THEN [DFail("PHC string contains unrecognized fields") EXCEPT !.left = left]
        ELSE DOk(Opts(JsStr(id), tv.version,
                      IF hasParams THEN JsObj(ps.o) ELSE Absent,
                      sh.salt, sh.hash))

deserialize(v, lib) ==
    IF v.t # "string" \/ (v.t = "string" /\ Len(v.s) = 0)
    THEN DFail("PHC string must be a non-empty string")
    ELSE IF v.s[1] # "$" THEN DFail("PHC string must start with '$'")
    ELSE LET parts == Slice1(Split(v.s, "$"))
             numFields == Len(parts)
         IN  IF numFields < 1 THEN DFail("PHC string must contain at least an id")
             ELSE IF TooManyFields(parts)
             THEN [DFail("PHC string contains too many fields")
                     EXCEPT !.n = Len(parts), !.max = maxf(parts)]
             ELSE IF numFields > 5
             THEN [DFail("PHC string contains too many fields")
                     EXCEPT !.n = numFields, !.max = 5]
             ELSE DeserializeFields(parts, lib)

----------------------------------------------------------------------------
(* The inputs of a run *)

MaxSegs == 6      \* segments of the longest input string
MaxFields == 3    \* optional segments after the id and the version
MaxParams == 2    \* properties set on a params object
MaxBytes == 3     \* bytes of a salt or a hash

SeqsUpTo(S, n) == UNION {[1..k -> S] : k \in 0..n}

IdStrings ==
    {<<"a">>, <<"a", "-", "7">>, Rep("a", IdMaxLen),
     <<"A">>, <<"a", "_">>, <<>>, Rep("a", IdMaxLen + 1)}

\* "$" before every segment
Dollar(segs) == IF Len(segs) = 0 THEN <<>> ELSE <<"$">> \o Join(segs, <<"$">>)

VersionSegs == {<<"v", "=", "1">>, <<"v", "=", "0", "7">>}

FieldSegs ==
    {<<>>,
     <<"a", "Q">>,
     <<"a">>,
     <<"v", "=", "1">>,
     <<"m", "=", "0", "7">>,
     <<"M", "=", "a">>,
     <<"m", "=", "1", ",", "7", "=", "a">>,
     <<"a", "b">>,
     <<"m">>,
     <<"m", "=", "@">>,
     <<"=", "1">>}

TailSegs == {<<"a">>, <<"v", "=", "1">>}

\* an id, then segments that only count
LongStrings ==
    {Dollar(<<id>> \o tail) : id \in IdStrings, tail \in SeqsUpTo(TailSegs, MaxSegs - 1)}

\* a valid id, an optional version and up to MaxFields further segments
FieldStrings ==
    {Dollar(<<<<"a">>>> \o v \o f) :
        v \in {<<>>} \cup {<<x>> : x \in VersionSegs},
        f \in SeqsUpTo(FieldSegs, MaxFields)}

PhcStrPool ==
    {JsNull, JsInt(5), JsStr(<<>>), JsStr(<<"a", "$", "a">>)}
    \cup {JsStr(x) : x \in LongStrings \cup FieldStrings}

BytePool == {105, 255}

ByteVals == {JsBytes(b) : b \in SeqsUpTo(BytePool, MaxBytes)}

\* what a caller can put in salt or hash
BufVals ==
    {Absent, JsUndefined, JsNull, JsStr(<<>>), JsStr(<<"s">>), JsInt(0), JsInt(1)}
    \cup ByteVals

ParamKeys == {<<"m">>, <<"v">>, <<"7">>, <<"M">>}

ParamVals ==
    {JsStr(<<"1">>), JsStr(<<"0", "7">>), JsStr(<<"@">>), JsInt(7), JsNull}

RECURSIVE ObjOf(_)
\* the object a sequence of assignments builds
ObjOf(kvs) ==
    IF Len(kvs) = 0 THEN <<>>
    ELSE ObjSet(ObjOf(SubSeq(kvs, 1, Len(kvs) - 1)), kvs[Len(kvs)][1], kvs[Len(kvs)][2])

ParamsVals ==
    {JsNull, JsStr(<<"m", "=", "1">>)}
    \cup {JsObj(ObjOf(kvs)) : kvs \in SeqsUpTo(ParamKeys \X ParamVals, MaxParams)}

OneParam == JsObj(<<<< <<"m">>, JsStr(<<"1">>) >>>>)
OneSalt == JsBytes(<<105>>)
OneHash == JsBytes(<<255>>)

\* every id, with and without each other field
IdFamily ==
    {Opts(id, v, p, s, h) :
        id \in {Absent, JsInt(1)} \cup {JsStr(x) : x \in IdStrings},
        v \in {Absent, JsInt(1)}, p \in {Absent, OneParam},
        s \in {Absent, OneSalt}, h \in {Absent, OneHash}}

VersionFamily ==
    {Opts(JsStr(<<"a">>), v, p, s, Absent) :
        v \in {Absent, JsNull, JsStr(<<"1">>), JsInt(0), JsInt(19), JsInt(-1),
               JsNum(TRUE, 0, <<>>), JsNum(FALSE, 1, <<5>>)},
        p \in {Absent, OneParam}, s \in {Absent, OneSalt}}

ParamsFamily ==
    {Opts(JsStr(<<"a">>), v, p, s, Absent) :
        v \in {Absent, JsInt(1)}, p \in ParamsVals, s \in {Absent, OneSalt}}

SaltHashFamily ==
    {Opts(JsStr(<<"a">>), Absent, p, s, h) :
        p \in {Absent, OneParam}, s \in BufVals, h \in BufVals}

OptsPool == {JsNull} \cup IdFamily \cup VersionFamily \cup ParamsFamily \cup SaltHashFamily

----------------------------------------------------------------------------
(* The runs: one call, and the other call on what it returned *)

SNotCalled == SFail("not called")
DNotCalled == DFail("not called")

InitEnc ==
    /\ first = "serialize" /\ pc = "serialize"
    /\ opts \in OptsPool
    /\ phcStr = JsUndefined
    /\ sres = SNotCalled /\ dres = DNotCalled

InitDec ==
    /\ first = "deserialize" /\ pc = "deserialize"
    /\ phcStr \in PhcStrPool
    /\ opts = JsUndefined
    /\ sres = SNotCalled /\ dres = DNotCalled

Init == InitEnc \/ InitDec

Serialize ==
    /\ pc = "serialize"
    /\ sres' = serialize(opts)
    /\ IF first = "serialize" /\ sres'.ok
       THEN pc' = "deserialize" /\ phcStr' = JsStr(sres'.str)
       ELSE pc' = "done" /\ UNCHANGED phcStr
    /\ UNCHANGED <<first, opts, dres>>

Deserialize ==
    /\ pc = "deserialize"
    /\ \E lib \in LibOutcomes : dres' = deserialize(phcStr, lib)
    /\ IF first = "deserialize" /\ dres'.ok
       THEN pc' = "serialize" /\ opts' = dres'.val
       ELSE pc' = "done" /\ UNCHANGED opts
    /\ UNCHANGED <<first, phcStr, sres>>

Next == Serialize \/ Deserialize

Spec == Init /\ [][Next]_vars

SpecEnc == InitEnc /\ [][Next]_vars

SpecDec == InitDec /\ [][Next]_vars

----------------------------------------------------------------------------
(* The vocabulary of the properties, stated without the codec's operators *)

SCalled == sres # SNotCalled
DCalled == dres # DNotCalled

\* a run that serialized a record and then deserialized the string
EncDone == first = "serialize" /\ pc = "done" /\ sres.ok /\ DCalled

\* a run that has deserialized its input string
DecCalled == first = "deserialize" /\ DCalled

\* a run that deserialized a string and then serialized the record
DecDone == first = "deserialize" /\ pc = "done" /\ dres.ok /\ SCalled

DollarPositions(s) == {i \in 1..Len(s) : s[i] = "$"}

\* the number of segments after the leading delimiter
NumSegments(s) == Cardinality(DollarPositions(s))

KthDollar(s, k) ==
    CHOOSE p \in DollarPositions(s) :
        Cardinality({q \in DollarPositions(s) : q < p}) = k - 1

\* the k-th segment of a string that starts with "$"
Segment(s, k) ==
    SubSeq(s, KthDollar(s, k) + 1,
           IF k < NumSegments(s) THEN KthDollar(s, k + 1) - 1 ELSE Len(s))

Segments(s) == [k \in 1..NumSegments(s) |-> Segment(s, k)]

StartsWithDollar(v) == v.t = "string" /\ Len(v.s) > 0 /\ v.s[1] = "$"

\* ^[a-z0-9-]{1,32}$
WellFormedName(s) ==
    /\ Len(s) >= 1 /\ Len(s) <= 32
    /\ \A i \in 1..Len(s) : s[i] \in LowerChars \cup DigitChars \cup {"-"}

\* v=<digits>
VersionShaped(s) ==
    /\ Len(s) >= 3 /\ s[1] = "v" /\ s[2] = "="
    /\ \A i \in 3..Len(s) : s[i] \in DigitChars

\* the base64 field pattern
Base64Shaped(s) ==
    \A i \in 1..Len(s) :
        s[i] \in LowerChars \cup UpperChars \cup DigitChars \cup {"/", "+", ".", "-"}

SameNumber(a, b) ==
    /\ a.t = "number" /\ b.t = "number"
    /\ a.int = b.int /\ a.frac = b.frac
    /\ (a.neg = b.neg \/ (a.int = 0 /\ a.frac = <<>>))

\* a field is present in both records or in neither, and equal when present
SameVersion(a, b) == Has(a) = Has(b) /\ (Has(a) => SameNumber(a, b))
SameBytes(a, b) == Has(a) = Has(b) /\ (Has(a) => b.t = "bytes" /\ a.b = b.b)

StringValued(p) == p.t = "object" /\ \A i \in 1..Len(p.o) : p.o[i][2].t = "string"

----------------------------------------------------------------------------
(* C1 *)

\* the record is one the claim covers: serialize accepted it, params (if any)
\* has string values only, salt (if any) is a byte buffer and hash (if any) is
\* a byte buffer that comes with a salt
C1Covered ==
    /\ opts.t = "object"
    /\ Has(opts.params) => StringValued(opts.params)
    /\ Has(opts.salt) => opts.salt.t = "bytes"
    /\ Has(opts.hash) => opts.hash.t = "bytes" /\ Has(opts.salt)

\* C1: deserialize(serialize(r)) does not fail and returns r's id, version,
\* salt and hash, each present exactly when r has it, for every record r that
\* serialize accepts (including id-only and id-and-version records).
C1_StructuralRoundTrip ==
    (EncDone /\ C1Covered) =>
        /\ dres.ok
        /\ dres.val.id = opts.id
        /\ SameVersion(opts.version, dres.val.version)
        /\ SameBytes(opts.salt, dres.val.salt)
        /\ SameBytes(opts.hash, dres.val.hash)

----------------------------------------------------------------------------
(* C2 *)

\* C2: for a record with string-valued params that serialize accepts, the
\* decoded params has the same keys in the same order, and the string form
\* of each decoded value is the string that was encoded.
C2_ParamsRoundTripAsStrings ==
    (EncDone /\ opts.t = "object" /\ Has(opts.params) /\ StringValued(opts.params)) =>
        /\ dres.ok
        /\ Has(dres.val.params)
        /\ Len(dres.val.params.o) = Len(opts.params.o)
        /\ \A i \in 1..Len(opts.params.o) :
              /\ dres.val.params.o[i][1] = opts.params.o[i][1]
              /\ JsToString(dres.val.params.o[i][2]) = opts.params.o[i][2].s

----------------------------------------------------------------------------
(* C3 *)

\* base64 padding removed from the end of every segment
PaddingNormalised(s) ==
    [k \in 1..NumSegments(s) |-> StripPad(Segment(s, k), 2)]

\* C3: for every string s that deserialize accepts, serialize(deserialize(s))
\* does not fail and returns s, up to base64 padding of the segments.
C3_StringRoundTrip ==
    DecDone =>
        /\ sres.ok
        /\ PaddingNormalised(sres.str) = PaddingNormalised(phcStr.s)

----------------------------------------------------------------------------
(* C4 *)

\* 5 when the segment right after the id is version-shaped, else 4
AllowedSegments(s) ==
    IF NumSegments(s) >= 2 /\ VersionShaped(Segment(s, 2)) THEN 5 ELSE 4

\* C4: an input that starts with "$" and has n segments fails with
\* "too many fields", carrying n and the maximum, exactly when n exceeds the
\* maximum: 5 if the segment right after the id is version-shaped, 4 otherwise.
\* The count is checked before the id.
C4_MaxFieldCount ==
    (DecCalled /\ StartsWithDollar(phcStr)) =>
        LET n == NumSegments(phcStr.s)
            max == AllowedSegments(phcStr.s)
        IN  /\ n > max =>
                /\ ~dres.ok
                /\ dres.err = "PHC string contains too many fields"
                /\ dres.n = n /\ dres.max = max
            /\ n <= max => dres.err # "PHC string contains too many fields"

\* five segments, a malformed id and a version-shaped segment further on
C4_Witness ==
    /\ DecCalled /\ StartsWithDollar(phcStr)
    /\ NumSegments(phcStr.s) = 5
    /\ ~WellFormedName(Segment(phcStr.s, 1))
    /\ ~VersionShaped(Segment(phcStr.s, 2))
    /\ VersionShaped(Segment(phcStr.s, 3))
    /\ dres.err = "PHC string contains too many fields"
    /\ dres.n = 5 /\ dres.max = 4

----------------------------------------------------------------------------
(* C5 *)

\* C5: serialize fails on every record whose id is a malformed string,
\* deserialize fails on every string whose first segment is a malformed id,
\* and no result of either carries an id outside ^[a-z0-9-]{1,32}$.
C5_MalformedIdRejected ==
    /\ (SCalled /\ opts.t = "object" /\ opts.id.t = "string"
            /\ ~WellFormedName(opts.id.s)) => ~sres.ok
    /\ (DCalled /\ StartsWithDollar(phcStr)
            /\ ~WellFormedName(Segment(phcStr.s, 1))) => ~dres.ok
    /\ (SCalled /\ sres.ok) => WellFormedName(Segment(sres.str, 1))
    /\ (DCalled /\ dres.ok) =>
            dres.val.id.t = "string" /\ WellFormedName(dres.val.id.s)

\* a record with a 33-character id and every other field valid was refused
C5_Witness ==
    /\ first = "serialize" /\ SCalled
    /\ opts.t = "object" /\ opts.id.t = "string"
    /\ Len(opts.id.s) = 33
    /\ Has(opts.version) /\ Has(opts.params) /\ Has(opts.salt) /\ Has(opts.hash)
    /\ ~sres.ok /\ sres.err = "id must satisfy"

----------------------------------------------------------------------------
(* C6 *)

\* name=value entries, each with a non-empty name and a well-formed value
EntriesOf(seg) ==
    LET P == {0} \cup {i \in 1..Len(seg) : seg[i] = ","} \cup {Len(seg) + 1}
    IN  {SubSeq(seg, a + 1, b - 1) :
            <<a, b>> \in {x \in P \X P : x[1] < x[2] /\ \A q \in P : ~(x[1] < q /\ q < x[2])}}

EntryName(e) ==
    LET E == {i \in 1..Len(e) : e[i] = "="}
    IN  IF E = {} THEN e ELSE SubSeq(e, 1, (CHOOSE i \in E : \A j \in E : i <= j) - 1)

EntryValue(e) ==
    LET E == {i \in 1..Len(e) : e[i] = "="}
    IN  SubSeq(e, (CHOOSE i \in E : \A j \in E : i <= j) + 1, Len(e))

WellFormedValue(s) ==
    /\ Len(s) >= 1
    /\ \A i \in 1..Len(s) :
          s[i] \in LowerChars \cup UpperChars \cup DigitChars \cup {"+", ".", "-"}

\* a parameters segment whose only fault is a name outside the name grammar
OnlyNamesAreWrong(seg) ==
    /\ \A e \in EntriesOf(seg) :
          /\ \E i \in 1..Len(e) : e[i] = "="
          /\ Len(EntryName(e)) > 0
          /\ WellFormedValue(EntryValue(e))
    /\ \E e \in EntriesOf(seg) : ~WellFormedName(EntryName(e))

\* C6: every key of the params deserialize returns matches ^[a-z0-9-]{1,32}$,
\* and a parameters segment with a name outside that grammar makes
\* deserialize fail with "params names must satisfy".
C6_ParamNamesValidatedOnDecode ==
    /\ (DecCalled /\ dres.ok /\ Has(dres.val.params)) =>
          \A i \in 1..Len(dres.val.params.o) : WellFormedName(dres.val.params.o[i][1])
    /\ (DecCalled /\ StartsWithDollar(phcStr)
            /\ NumSegments(phcStr.s) = 2
            /\ WellFormedName(Segment(phcStr.s, 1))
            /\ OnlyNamesAreWrong(Segment(phcStr.s, 2))) =>
          (~dres.ok /\ dres.err = "params names must satisfy")

----------------------------------------------------------------------------
(* C7 *)

SegmentsExpectedWithoutSalt ==
    1 + (IF Has(opts.version) THEN 1 ELSE 0) + (IF Has(opts.params) THEN 1 ELSE 0)

\* the record with its hash removed
WithoutHash(o) == [o EXCEPT !.hash = Absent]

\* C7: a record with a hash and no salt that is valid without the hash is
\* serialized, without failure, to the string of the same record without the
\* hash: the id, version and parameters segments and nothing else. In every
\* string serialize returns, a hash segment follows a salt segment.
C7_HashWithoutSaltIgnored ==
    /\ (first = "serialize" /\ SCalled /\ opts.t = "object"
            /\ Has(opts.hash) /\ ~Has(opts.salt)
            /\ serialize(WithoutHash(opts)).ok) =>
          /\ sres.ok
          /\ sres.str = serialize(WithoutHash(opts)).str
          /\ NumSegments(sres.str) = SegmentsExpectedWithoutSalt
    /\ (first = "serialize" /\ SCalled /\ sres.ok) =>
          LET extra == NumSegments(sres.str) - SegmentsExpectedWithoutSalt
          IN  /\ extra \in {0, 1, 2}
              /\ extra >= 1 => (Has(opts.salt) /\ opts.salt.t = "bytes")
              /\ extra = 2 => (Has(opts.hash) /\ opts.hash.t = "bytes")

\* a record with version, params and a non-empty hash but no salt was serialized
C7_Witness ==
    /\ first = "serialize" /\ SCalled /\ opts.t = "object"
    /\ Has(opts.hash) /\ opts.hash.t = "bytes" /\ Len(opts.hash.b) > 0
    /\ ~Has(opts.salt)
    /\ Has(opts.version) /\ Has(opts.params)
    /\ sres.ok /\ NumSegments(sres.str) = 3

----------------------------------------------------------------------------
(* C8 *)

\* the values the claim lists: a string, an empty string, a number, zero, null
ListedNonBuffer(v) == v.t \in {"string", "number", "null"}

\* the record is valid apart from its salt and hash
ValidApartFromSaltHash(o) ==
    o.t = "object" /\ serialize([o EXCEPT !.salt = Absent, !.hash = Absent]).ok

\* C8: a salt that is present and is not a byte buffer makes serialize fail
\* with the salt violation; a hash that is present and is not a byte buffer,
\* next to a byte-buffer salt, makes it fail with the hash violation.
C8_SaltHashTypeViolations ==
    (first = "serialize" /\ SCalled /\ ValidApartFromSaltHash(opts)) =>
        /\ (Has(opts.salt) /\ ListedNonBuffer(opts.salt)) =>
              (~sres.ok /\ sres.err = "salt must be a ArrayBuffer or Uint8Array")
        /\ (Has(opts.salt) /\ opts.salt.t = "bytes"
                /\ Has(opts.hash) /\ ListedNonBuffer(opts.hash)) =>
              (~sres.ok /\ sres.err = "hash must be a ArrayBuffer or Uint8Array")

----------------------------------------------------------------------------
(* C9 *)

\* $<id> or $<id>$v=<digits>, the id valid
IdAndVersionOnly(v) ==
    /\ StartsWithDollar(v)
    /\ NumSegments(v.s) \in {1, 2}
    /\ WellFormedName(Segment(v.s, 1))
    /\ NumSegments(v.s) = 2 => VersionShaped(Segment(v.s, 2))

\* C9: an input $<id> or $<id>$v=<digits> is deserialized without failure to
\* a record with that id (and a version exactly when there is a version
\* segment) and no params, no salt and no hash.
C9_NoOptionalSegments ==
    (DecCalled /\ IdAndVersionOnly(phcStr)) =>
        /\ dres.ok
        /\ dres.val.id = JsStr(Segment(phcStr.s, 1))
        /\ Has(dres.val.version) = (NumSegments(phcStr.s) = 2)
        /\ ~Has(dres.val.params)
        /\ ~Has(dres.val.salt)
        /\ ~Has(dres.val.hash)

----------------------------------------------------------------------------
(* C10 *)

\* the segments after the id
FieldsOf(s) == Tail(Segments(s))

\* the segments after the id and the version segment
AfterVersion(s) ==
    LET F == FieldsOf(s)
    IN  IF Len(F) >= 1 /\ VersionShaped(F[1]) THEN Tail(F) ELSE F

\* how many trailing segments the salt and hash checks take: two when the
\* last two are both base64-shaped, one when only the last is
TrailingBase64(F) ==
    IF Len(F) = 0 \/ ~Base64Shaped(F[Len(F)]) THEN 0
    ELSE IF Len(F) >= 2 /\ Base64Shaped(F[Len(F) - 1]) THEN 2
    ELSE 1

\* every entry is name=value with a non-empty name
ParamsShaped(seg) ==
    \A e \in EntriesOf(seg) :
        (\E i \in 1..Len(e) : e[i] = "=") /\ Len(EntryName(e)) > 0

Count(b) == IF b THEN 1 ELSE 0

\* the returned record accounts for every segment after the id, in wire order
ConsumedInWireOrder(s, r) ==
    LET F == FieldsOf(s)
        nV == Count(Has(r.version))
        nP == Count(Has(r.params))
        nH == Count(Has(r.hash))
        nS == Len(F) - nV - nP - nH
    IN  /\ nS \in {0, 1}
        /\ nS = 1 => Has(r.salt)
        /\ Has(r.hash) => (nS = 1 /\ Has(r.salt))
        /\ Has(r.version) = (Len(F) >= 1 /\ VersionShaped(F[1]))
        /\ Has(r.version) => r.version = JsInt(DigitsToNat(SubSeq(F[1], 3, Len(F[1]))))
        /\ Has(r.params) =>
              /\ ParamsShaped(F[nV + 1])
              /\ {r.params.o[i][1] : i \in 1..Len(r.params.o)}
                    = {EntryName(e) : e \in EntriesOf(F[nV + 1])}
        /\ nS = 1 =>
              /\ Base64Shaped(F[nV + nP + 1])
              /\ r.salt = JsBytes(DecodeQuads(F[nV + nP + 1]))
        /\ Has(r.hash) =>
              /\ Base64Shaped(F[nV + nP + 2])
              /\ r.hash = JsBytes(DecodeQuads(F[nV + nP + 2]))
        /\ Has(r.hash) = (TrailingBase64(AfterVersion(s)) = 2)

LaterErrors ==
    {"decodeBase64", "params must be in the format name=value",
     "params names must satisfy", "params values must satisfy"}

\* C10: when deserialize returns a record, the segments after the id are an
\* optional version, an optional parameters segment, an optional salt and an
\* optional hash, in this order, each consumed as that field, with a hash only
\* next to a salt; the version is taken first, then a salt and hash pair, then
\* a single salt, then the parameters; and a segment left over after the
\* parameters makes deserialize fail with "unrecognized fields".
C10_WireOrderOrFail ==
    (DecCalled /\ StartsWithDollar(phcStr)) =>
        LET s == phcStr.s
            F == AfterVersion(s)
            over == Len(F) - TrailingBase64(F)
        IN  /\ dres.ok => ConsumedInWireOrder(s, dres.val)
            /\ (NumSegments(s) <= AllowedSegments(s) /\ WellFormedName(Segment(s, 1))
                    /\ over >= 2) =>
                  /\ ~dres.ok
                  /\ dres.err \notin LaterErrors =>
                        /\ dres.err = "PHC string contains unrecognized fields"
                        /\ dres.left = SubSeq(F, 1, over - 1)
            /\ dres.err = "PHC string contains unrecognized fields" => over >= 2

\* a string with version, parameters, salt and hash segments was accepted
C10_Witness ==
    /\ DecCalled /\ StartsWithDollar(phcStr) /\ dres.ok
    /\ NumSegments(phcStr.s) = 5
    /\ Has(dres.val.version) /\ Has(dres.val.params)
    /\ Has(dres.val.salt) /\ Has(dres.val.hash)
    /\ Len(dres.val.salt.b) > 0

====
